---- MODULE Spec2Model ----
(***************************************************************************)
(* PhilsElections2025: the name standardizer and the table loaders of      *)
(* process_election_data.py, and the survey scoring of app.py.             *)
(*                                                                         *)
(* Strings are sequences of one-character strings, so that title(),        *)
(* lower(), split(), strip(), `in` and the regular expressions of the      *)
(* source are computed character by character.                             *)
(***************************************************************************)
EXTENDS Integers, Sequences, FiniteSets, TLC

VARIABLES
  raw_name,        \* standardize_name: the argument
  names_pc,        \* "start" | "once" | "twice": how often it was applied
  std_once,        \* standardize_name(raw_name)
  reached_mapping, \* the string reaching the name_mapping loop (None: returned before)
  after_mapping,   \* the string leaving the name_mapping loop
  std_twice,       \* standardize_name(std_once)
  raw_actual,         \* data/raw-actual-results.md: its lines
  raw_polls,          \* data/raw-opinion-poll-data.md: its lines
  main_pc,            \* main(): "start" | "actual" | "polls" | "saved_results" |
                      \*         "saved_polls" | "done" | "error"
  main_error,         \* the exception that ended main() ("" while none)
  results_df,         \* main(): results_df (NoFrame before it is read)
  polls_df,           \* main(): polls_df (NoFrame before it is read)
  actual_results_csv, \* data/processed/actual_results.csv (NoFrame: not written)
  opinion_polls_csv,  \* data/processed/opinion_polls.csv (NoFrame: not written)
  name_mapping_csv,   \* data/processed/name_mapping.csv (NoFrame: not written)
  csv_actual,      \* app: data/processed/actual_results.csv as it is now
  csv_polls,       \* app: data/processed/opinion_polls.csv as it is now
  cache,           \* app: what st.cache_data holds for load_data() (NoCache: nothing);
                   \*      after a run, the script's actual_results and opinion_polls
  evaluated,       \* app: the script ran after the last change of the files
  actual_top12,    \* app.py: actual_top12
  comparison_df,   \* app.py: comparison_df, one row for each poll column
  selected_poll,   \* app.py: selected_poll, a column of opinion_polls (0: none yet)
  predicted_marks, \* app.py: is_correct of each entry of the selected Predicted Top 12
  actual_marks,    \* app.py: is_predicted of each entry of actual_top12
  missed_counts    \* app.py: missed_counts, <<senator, count>> in insertion order

main_vars == <<raw_actual, raw_polls, main_pc, main_error, results_df, polls_df,
               actual_results_csv, opinion_polls_csv, name_mapping_csv>>

names_vars == <<raw_name, names_pc, std_once, reached_mapping, after_mapping, std_twice>>

app_vars == <<csv_actual, csv_polls, cache, evaluated, actual_top12, comparison_df,
              selected_poll, predicted_marks, actual_marks, missed_counts>>

vars == <<names_vars, main_vars, app_vars>>

----------------------------------------------------------------------------
(* Python's None / a value not computed yet. No string equals it: every    *)
(* element of a string is one character long.                              *)
None == <<"None">>

(* ---------------------------- str methods ------------------------------ *)

UpperChars ==
  <<"A","B","C","D","E","F","G","H","I","J","K","L","M",
    "N","O","P","Q","R","S","T","U","V","W","X","Y","Z">>

LowerChars ==
  <<"a","b","c","d","e","f","g","h","i","j","k","l","m",
    "n","o","p","q","r","s","t","u","v","w","x","y","z">>

DigitChars == <<"0","1","2","3","4","5","6","7","8","9">>

Range(f) == {f[i] : i \in DOMAIN f}

IsUpper(c) == c \in Range(UpperChars)

IsLower(c) == c \in Range(LowerChars)

IsAlpha(c) == IsUpper(c) \/ IsLower(c)

IsDigit(c) == c \in Range(DigitChars)

\* \w of the re module
IsWordChar(c) == IsAlpha(c) \/ IsDigit(c) \/ c = "_"

\* \s of the re module, and what str.strip() strips
IsSpace(c) == c \in {" ", "\t"}

LowerOf(c) ==
  IF IsUpper(c) THEN LowerChars[CHOOSE i \in 1..26 : UpperChars[i] = c] ELSE c

UpperOf(c) ==
  IF IsLower(c) THEN UpperChars[CHOOSE i \in 1..26 : LowerChars[i] = c] ELSE c

\* str.lower()
lower(s) == [i \in 1..Len(s) |-> LowerOf(s[i])]

\* str.title(): a letter after a letter is lowered, any other letter raised
title(s) ==
  [i \in 1..Len(s) |->
     IF IsAlpha(s[i])
     THEN IF i > 1 /\ IsAlpha(s[i-1]) THEN LowerOf(s[i]) ELSE UpperOf(s[i])
     ELSE s[i]]

\* sub in s
Contains(sub, s) ==
  \E i \in 0..(Len(s) - Len(sub)) : SubSeq(s, i + 1, i + Len(sub)) = sub

\* s.split(sep), sep one character
RECURSIVE split(_, _)
split(s, sep) ==
  IF \A i \in 1..Len(s) : s[i] # sep
  THEN <<s>>
  ELSE LET i == CHOOSE k \in 1..Len(s) :
                  s[k] = sep /\ \A j \in 1..(k-1) : s[j] # sep
       IN  <<SubSeq(s, 1, i - 1)>> \o split(SubSeq(s, i + 1, Len(s)), sep)

SetMin(S) == CHOOSE x \in S : \A y \in S : x <= y

SetMax(S) == CHOOSE x \in S : \A y \in S : x >= y

\* s.strip()
strip(s) ==
  LET keep == {i \in 1..Len(s) : ~IsSpace(s[i])}
  IN  IF keep = {} THEN <<>> ELSE SubSeq(s, SetMin(keep), SetMax(keep))

\* sep.join(parts)
RECURSIVE join(_, _)
join(parts, sep) ==
  IF Len(parts) = 0 THEN <<>>
  ELSE IF Len(parts) = 1 THEN parts[1]
  ELSE parts[1] \o sep \o join(Tail(parts), sep)

\* s.replace(old, new): leftmost occurrences, not overlapping
RECURSIVE replace(_, _, _)
replace(s, old, new) ==
  IF Len(s) < Len(old) \/ Len(old) = 0 THEN s
  ELSE IF SubSeq(s, 1, Len(old)) = old
       THEN new \o replace(SubSeq(s, Len(old) + 1, Len(s)), old, new)
       ELSE <<s[1]>> \o replace(Tail(s), old, new)

\* re.sub(r'\bW\b', '', s) from position i on; \b is read on s itself
RECURSIVE re_sub_word_from(_, _, _)
re_sub_word_from(w, s, i) ==
  IF i > Len(s) THEN <<>>
  ELSE IF /\ i + Len(w) - 1 <= Len(s)
          /\ SubSeq(s, i, i + Len(w) - 1) = w
          /\ (i = 1 \/ ~IsWordChar(s[i-1]))
          /\ (i + Len(w) > Len(s) \/ ~IsWordChar(s[i + Len(w)]))
       THEN re_sub_word_from(w, s, i + Len(w))
       ELSE <<s[i]>> \o re_sub_word_from(w, s, i + 1)

re_sub_word(w, s) == re_sub_word_from(w, s, 1)

\* re.sub(r'\s+', ' ', s)
RECURSIVE re_sub_spaces_from(_, _)
re_sub_spaces_from(s, i) ==
  IF i > Len(s) THEN <<>>
  ELSE IF IsSpace(s[i])
       THEN (IF i > 1 /\ IsSpace(s[i-1]) THEN <<>> ELSE <<" ">>)
              \o re_sub_spaces_from(s, i + 1)
       ELSE <<s[i]>> \o re_sub_spaces_from(s, i + 1)

re_sub_spaces(s) == re_sub_spaces_from(s, 1)

(* --------------------------- standardize_name -------------------------- *)

\* the dict specific_cases, in insertion order: <<key, value>>
specific_cases ==
  << << <<"G","o",","," ","B","o","n","g"," ","G","o">>,
        <<"B","o","n","g"," ","G","o">> >>,
     << <<"B","o","n","g"," ","R","e","v","i","l","l","a",","," ","R","a","m","o","n",","," ","J","r",".">>,
        <<"R","a","m","o","n"," ","B","o","n","g"," ","R","e","v","i","l","l","a"," ","J","r",".">> >>,
     << <<"B","o","n","g"," ","R","e","v","i","l","l","a">>,
        <<"R","a","m","o","n"," ","B","o","n","g"," ","R","e","v","i","l","l","a"," ","J","r",".">> >>,
     << <<"P","a","c","q","u","i","a","o",","," ","M","a","n","n","y"," ","P","a","c","m","a","n">>,
        <<"M","a","n","n","y"," ","P","a","c","q","u","i","a","o">> >>,
     << <<"T","o","l","e","n","t","i","n","o",","," ","F","r","a","n","c","i","s"," ","T","o","l">>,
        <<"F","r","a","n","c","i","s"," ","T","o","l","e","n","t","i","n","o">> >>,
     << <<"S","a","l","v","a","d","o","r",","," ","P","h","i","l","l","i","p"," ","I","p","e">>,
        <<"P","h","i","l","l","i","p"," ","S","a","l","v","a","d","o","r">> >>,
     << <<"R","e","v","i","l","l","a","m","e",","," ","W","i","l","l","i","e"," ","W","i","l">>,
        <<"W","i","l","l","i","e"," ","R","e","v","i","l","l","a","m","e">> >>,
     << <<"T","u","l","f","o",","," ","B","e","n"," ","B","i","t","a","g">>,
        <<"B","e","n"," ","T","u","l","f","o">> >>,
     << <<"B","o","s","i","t","a",","," ","C","o","l","o","n","e","l">>,
        <<"B","o","n","i","f","a","c","i","o"," ","B","o","s","i","t","a">> >>,
     << <<"R","o","d","r","i","g","u","e","z",","," ","A","t","t","y","."," ","V","i","c">>,
        <<"V","i","c"," ","R","o","d","r","i","g","u","e","z">> >> >>

\* the dict name_mapping, in insertion order: <<key, value>>
name_mapping ==
  << << <<"B","a","t","o"," ","D","e","l","a"," ","R","o","s","a">>,
        <<"B","a","t","o"," ","d","e","l","a"," ","R","o","s","a">> >>,
     << <<"P","a","n","f","i","l","o"," ","L","a","c","s","o","n">>,
        <<"P","i","n","g"," ","L","a","c","s","o","n">> >>,
     << <<"F","r","a","n","c","i","s"," ","T","o","l","e","n","t","i","n","o">>,
        <<"F","r","a","n","c","i","s"," ","T","o","l","e","n","t","i","n","o">> >>,
     << <<"P","h","i","l","l","i","p"," ","I","p","e"," ","S","a","l","v","a","d","o","r">>,
        <<"P","h","i","l","l","i","p"," ","S","a","l","v","a","d","o","r">> >>,
     << <<"W","i","l","l","i","e"," ","R","e","v","i","l","l","a","m","e">>,
        <<"W","i","l","l","i","e"," ","R","e","v","i","l","l","a","m","e">> >>,
     << <<"B","e","n"," ","T","u","l","f","o">>,
        <<"B","e","n"," ","T","u","l","f","o">> >>,
     << <<"C","o","l","o","n","e","l"," ","B","o","s","i","t","a">>,
        <<"B","o","n","i","f","a","c","i","o"," ","B","o","s","i","t","a">> >>,
     << <<"A","t","t","y","."," ","V","i","c"," ","R","o","d","r","i","g","u","e","z">>,
        <<"V","i","c"," ","R","o","d","r","i","g","u","e","z">> >>,
     << <<"R","o","d","a","n","t","e"," ","M","a","r","c","o","l","e","t","a">>,
        <<"R","o","d","a","n","t","e"," ","M","a","r","c","o","l","e","t","a">> >>,
     << <<"K","i","k","o"," ","P","a","n","g","i","l","i","n","a","n">>,
        <<"F","r","a","n","c","i","s"," ","K","i","k","o"," ","P","a","n","g","i","l","i","n","a","n">> >> >>

\* the nickname patterns, in the order of the re.sub calls
nicknames ==
  << <<"P","a","c","m","a","n">>, <<"T","o","l">>, <<"W","i","l">>,
     <<"B","i","t","a","g">> >>

\* the keys of specific_cases equal to name, case-insensitively
SpecificHits(name) ==
  {i \in 1..Len(specific_cases) : lower(specific_cases[i][1]) = lower(name)}

\* parts[1:] + [parts[0]], stripped and joined with one space
CommaInvert(name) ==
  IF Contains(<<",">>, name)
  THEN LET parts   == split(name, ",")
           rotated == Tail(parts) \o <<parts[1]>>
       IN  join([i \in 1..Len(rotated) |-> strip(rotated[i])], <<" ">>)
  ELSE name

RECURSIVE RemoveNicknamesFrom(_, _)
RemoveNicknamesFrom(name, k) ==
  IF k > Len(nicknames) THEN name
  ELSE RemoveNicknamesFrom(re_sub_word(nicknames[k], name), k + 1)

RemoveNicknames(name) == RemoveNicknamesFrom(name, 1)

\* the loop over name_mapping.items() from rule k on: a rule whose key is in
\* the current name replaces the name, and the next rule reads the new name
RECURSIVE ApplyNameMappingFrom(_, _)
ApplyNameMappingFrom(name, k) ==
  IF k > Len(name_mapping) THEN name
  ELSE ApplyNameMappingFrom(
         IF Contains(lower(name_mapping[k][1]), lower(name))
         THEN name_mapping[k][2] ELSE name,
         k + 1)

\* the rules whose key is in s, case-insensitively
MatchingRules(s) ==
  {k \in 1..Len(name_mapping) : Contains(lower(name_mapping[k][1]), lower(s))}

\* the loop as it would be with every rule read on the string it started on
ApplyNameMappingLastWins(name) ==
  IF MatchingRules(name) = {} THEN name
  ELSE name_mapping[SetMax(MatchingRules(name))][2]

ApplyNameMapping(name) == ApplyNameMappingFrom(name, 1)

CleanSpaces(name) == strip(re_sub_spaces(name))

\* the string on which the name_mapping loop starts (None: an exact case returned)
BeforeMapping(name) ==
  IF SpecificHits(title(name)) # {} THEN None
  ELSE RemoveNicknames(CommaInvert(title(name)))

standardize_name(name) ==
  LET titled == title(name)
      hits   == SpecificHits(titled)
  IN  IF hits # {}
      THEN specific_cases[SetMin(hits)][2]
      ELSE CleanSpaces(ApplyNameMapping(RemoveNicknames(CommaInvert(titled))))

(* ------------------------- raw names to try ---------------------------- *)

\* the most fragments a raw name is made of
MaxParts == 3

Fragments ==
  { <<"R","e","v","i","l","l","a">>, <<"B","O","N","G">>, <<",">>, <<" ">>,
    <<"B","e","n"," ","T","u","l","f","o">>,
    <<"k","i","k","o"," ","p","a","n","g","i","l","i","n","a","n">>,
    <<"T","o","l">> }

RECURSIVE Concats(_)
Concats(n) ==
  IF n = 0 THEN {<<>>}
  ELSE LET shorter == Concats(n - 1)
       IN  shorter \cup {f \o r : f \in Fragments, r \in shorter}

RawNames == Concats(MaxParts) \ {<<>>}

(* ------------------------- cells and frames ---------------------------- *)

\* A DataFrame cell: text, a number, NaN, or None.
Str(x) == [kind |-> "str", s |-> x, v |-> 0]

Num(n) == [kind |-> "num", s |-> <<>>, v |-> n]

NaN == [kind |-> "nan", s |-> <<>>, v |-> 0]

NoneCell == [kind |-> "none", s |-> <<>>, v |-> 0]

DigitVal(c) == (CHOOSE i \in 1..10 : DigitChars[i] = c) - 1

IsDigits(s) == Len(s) > 0 /\ \A i \in 1..Len(s) : IsDigit(s[i])

RECURSIVE DigitsValue(_)
DigitsValue(s) ==
  IF Len(s) = 0 THEN 0
  ELSE 10 * DigitsValue(SubSeq(s, 1, Len(s) - 1)) + DigitVal(s[Len(s)])

\* whether int(s) succeeds: blanks around, a sign, digits, single underscores
\* between digits
IsIntLiteral(s) ==
  LET u == strip(s)
      b == IF Len(u) > 0 /\ u[1] \in {"+", "-"} THEN Tail(u) ELSE u
  IN  /\ Len(b) > 0
      /\ \A i \in 1..Len(b) : IsDigit(b[i]) \/ b[i] = "_"
      /\ IsDigit(b[1]) /\ IsDigit(b[Len(b)])
      /\ \A i \in 1..(Len(b) - 1) : ~(b[i] = "_" /\ b[i+1] = "_")

IntValue(s) ==
  LET u == strip(s)
      b == IF Len(u) > 0 /\ u[1] \in {"+", "-"} THEN Tail(u) ELSE u
      d == replace(b, <<"_">>, <<>>)
  IN  IF Len(u) > 0 /\ u[1] = "-" THEN 0 - DigitsValue(d) ELSE DigitsValue(d)

\* the cell a Series.str method yields: None and NaN become NaN
StrMethod(cell, result) == IF cell.kind = "str" THEN Str(result) ELSE NaN

\* one element of .astype(int): the exception is the cell "raise"
Raised == [kind |-> "raise", s |-> <<>>, v |-> 0]

astype_int(cell) ==
  IF cell.kind = "str" /\ IsIntLiteral(cell.s) THEN Num(IntValue(cell.s))
  ELSE Raised

\* one element of pd.to_numeric(errors='coerce'); the texts tried hold no
\* decimal point, exponent or sign
to_numeric(cell) ==
  IF cell.kind = "str" /\ IsDigits(cell.s) THEN Num(DigitsValue(cell.s))
  ELSE IF cell.kind = "num" THEN cell
  ELSE NaN

\* a loader's result: a frame, or the exception it raised
Frame(columns, rows) == [err |-> "", columns |-> columns, rows |-> rows]

Raise(exc) == [err |-> exc, columns |-> <<>>, rows |-> <<>>]

\* no frame yet; a file that was not written
NoFrame == [err |-> "absent", columns |-> <<>>, rows |-> <<>>]

MaxLen(data) == SetMax({Len(data[i]) : i \in 1..Len(data)} \cup {0})

\* pd.DataFrame(data, columns=header) on a list of lists: the rows are padded
\* with None to the longest row, whose length must be the header's
DataFrame(data, columns) ==
  IF Len(data) = 0 THEN Frame(columns, <<>>)
  ELSE IF MaxLen(data) # Len(columns) THEN Raise("ValueError")
  ELSE Frame(columns,
             [i \in 1..Len(data) |->
                [j \in 1..Len(columns) |->
                   IF j <= Len(data[i]) THEN Str(data[i][j]) ELSE NoneCell]])

\* the position of a column label (0: no such column)
ColIndex(columns, label) ==
  IF \E i \in 1..Len(columns) : columns[i] = label
  THEN SetMin({i \in 1..Len(columns) : columns[i] = label})
  ELSE 0

\* [cell.strip() for cell in line.strip().split('|')[1:-1]]
RowCells(line) ==
  LET parts == split(strip(line), "|")
      inner == SubSeq(parts, 2, Len(parts) - 1)
  IN  [i \in 1..Len(inner) |-> strip(inner[i])]

\* the rows of lines[2:] that hold a '|'
RECURSIVE DataRowsFrom(_, _)
DataRowsFrom(lines, i) ==
  IF i > Len(lines) THEN <<>>
  ELSE (IF Contains(<<"|">>, lines[i]) THEN <<RowCells(lines[i])>> ELSE <<>>)
         \o DataRowsFrom(lines, i + 1)

DataRows(lines) == DataRowsFrom(lines, 3)

CandidateName == <<"C","a","n","d","i","d","a","t","e"," ","N","a","m","e">>

NumberOfVotes == <<"N","u","m","b","e","r"," ","o","f"," ","V","o","t","e","s">>

Candidate == <<"C","a","n","d","i","d","a","t","e">>

StandardizedName == <<"S","t","a","n","d","a","r","d","i","z","e","d"," ","N","a","m","e">>

\* df[label] = df[source].apply(standardize_name), a new last column
WithStandardizedName(df, source) ==
  Frame(df.columns \o <<StandardizedName>>,
        [i \in 1..Len(df.rows) |->
           df.rows[i] \o <<Str(standardize_name(df.rows[i][source].s))>>])

(* ------------------------- read_actual_results ------------------------- *)

\* .str.replace(',', '') of one cell
StripCommas(cell) == StrMethod(cell, replace(cell.s, <<",">>, <<>>))

\* the conversion as it would be with errors coerced to NaN
VotesToIntCoerce(cell) ==
  IF astype_int(StripCommas(cell)) = Raised THEN NaN
  ELSE astype_int(StripCommas(cell))

VotesToInt(cell) == astype_int(StripCommas(cell))

read_actual_results(lines) ==
  LET header == RowCells(lines[1])
      df     == DataFrame(DataRows(lines), header)
      names  == ColIndex(header, CandidateName)
      votes  == ColIndex(header, NumberOfVotes)
  IN  IF df.err # "" THEN df
      ELSE IF names = 0 \/ votes = 0 THEN Raise("KeyError")
      ELSE IF \E i \in 1..Len(df.rows) : df.rows[i][names].kind # "str"
      THEN Raise("AttributeError")
      ELSE LET named == WithStandardizedName(df, names)
               conv  == [i \in 1..Len(named.rows) |->
                           [named.rows[i] EXCEPT
                              ![votes] = VotesToInt(named.rows[i][votes])]]
           IN  IF \E i \in 1..Len(conv) : conv[i][votes] = Raised
               THEN Raise("ValueError")
               ELSE Frame(named.columns, conv)

(* -------------------------- read_opinion_polls ------------------------- *)

\* the substrings of the `if` of the conversion loop
pollsters ==
  { <<"O","C","T","A">>,
    <<"S","W","S">>,
    <<"P","u","l","s","e"," ","A","s","i","a">>,
    <<"W","R"," ","N","u","m","e","r","o">>,
    <<"A","r","k","i","p","e","l","a","g","o"," ","A","n","a","l","y","t","i","c","s">>,
    <<"T","h","e"," ","C","e","n","t","e","r">>,
    <<"D","Z","R","H">>,
    <<"P","u","b","l","i","c","u","s"," ","A","s","i","a">> }

IsPollColumn(col) == \E p \in pollsters : Contains(p, col)

\* .str.replace('%', '').str.replace('**', '').str.replace('*', '').str.strip()
StripMarkup(cell) ==
  StrMethod(cell,
    strip(replace(replace(replace(cell.s, <<"%">>, <<>>),
                          <<"*", "*">>, <<>>),
                  <<"*">>, <<>>)))

PollCellToNumber(cell) == to_numeric(StripMarkup(cell))

\* cell.strip().replace('<br>', ' ') for each header cell
PollHeader(line) ==
  LET cells == RowCells(line)
  IN  [i \in 1..Len(cells) |-> replace(cells[i], <<"<","b","r",">">>, <<" ">>)]

\* the loop over df.columns[2:]
ConvertPollColumns(df) ==
  Frame(df.columns,
        [i \in 1..Len(df.rows) |->
           [j \in 1..Len(df.columns) |->
              IF j > 2 /\ IsPollColumn(df.columns[j])
              THEN PollCellToNumber(df.rows[i][j])
              ELSE df.rows[i][j]]])

read_opinion_polls(lines) ==
  LET header == PollHeader(lines[1])
      df     == DataFrame(DataRows(lines), header)
      names  == ColIndex(header, Candidate)
  IN  IF df.err # "" THEN df
      ELSE IF names = 0 THEN Raise("KeyError")
      ELSE IF \E i \in 1..Len(df.rows) : df.rows[i][names].kind # "str"
      THEN Raise("AttributeError")
      ELSE ConvertPollColumns(WithStandardizedName(df, names))

(* --------------------------------- main -------------------------------- *)

\* DataFrame.drop_duplicates(): the first of equal rows is kept
RECURSIVE drop_duplicates(_)
drop_duplicates(rows) ==
  IF Len(rows) = 0 THEN <<>>
  ELSE LET init == drop_duplicates(SubSeq(rows, 1, Len(rows) - 1))
           last == rows[Len(rows)]
       IN  IF \E i \in 1..Len(init) : init[i] = last THEN init
           ELSE init \o <<last>>

\* the pairs <<Original Name, Standardized Name>> of one frame
NamePairs(df, source) ==
  [i \in 1..Len(df.rows) |->
     <<df.rows[i][source], df.rows[i][Len(df.columns)]>>]

NameMappingFrame(results, polls) ==
  Frame(<<<<"O","r","i","g","i","n","a","l"," ","N","a","m","e">>,
          StandardizedName>>,
        drop_duplicates(
          NamePairs(results, ColIndex(results.columns, CandidateName))
          \o NamePairs(polls, ColIndex(polls.columns, Candidate))))

(* -------------------------- source files to try ------------------------ *)

\* the most data rows of a source table
MaxRows == 2

Separator == <<"|","-","|">>

ActualHeader == <<"|"," ","C","a","n","d","i","d","a","t","e"," ","N","a","m","e"," ","|"," ","N","u","m","b","e","r"," ","o","f"," ","V","o","t","e","s"," ","|"," ","P","a","r","t","y"," ","|">>

ActualLines ==
  { <<"|"," ","a"," ","|"," ","1",",","2"," ","|"," ","P"," ","|">>,
    <<"|","B","|","x","|","P","|">>,
    <<"|","A","|","7","|">>,
    <<"|","B","|","7","|","P","|","Q","|">> }

PollsHeader == <<"|"," ","C","a","n","d","i","d","a","t","e"," ","|"," ","P","a","r","t","y"," ","|"," ","S","W","S","<","b","r",">","A","p","r"," ","|"," ","I","p","s","o","s"," ","|">>

PollLines ==
  { <<"|"," ","a"," ","|"," ","P"," ","|"," ","7","%"," ","|"," ","7","%"," ","|">>,
    <<"|","B","|","P","|","*","*","7","*","*","|","|">>,
    <<"|","A","|","P","|","x","|","x","|">>,
    <<"|","A","|","P","|","7","|">> }

RECURSIVE SeqsUpTo(_, _)
SeqsUpTo(S, n) ==
  IF n = 0 THEN {<<>>}
  ELSE LET shorter == SeqsUpTo(S, n - 1)
       IN  shorter \cup {<<x>> \o r : x \in S, r \in {q \in shorter : Len(q) = n - 1}}

ActualFiles == {<<ActualHeader, Separator>> \o rows : rows \in SeqsUpTo(ActualLines, MaxRows)}

PollFiles == {<<PollsHeader, Separator>> \o rows : rows \in SeqsUpTo(PollLines, MaxRows)}

(* ---------------------------------- app -------------------------------- *)

\* the 12 of head(12) and of correct_count / 12
TopN == 12

Party == <<"P","a","r","t","y">>

\* df.head(n), on a sequence
head(rows, n) == SubSeq(rows, 1, IF Len(rows) < n THEN Len(rows) ELSE n)

\* df[label].tolist()
Column(df, label) ==
  LET c == ColIndex(df.columns, label)
  IN  [i \in 1..Len(df.rows) |-> df.rows[i][c]]

\* what st.cache_data holds before the first call of load_data()
NoCache == [err |-> "absent", actual |-> NoFrame, polls |-> NoFrame]

\* load_data() under @st.cache_data: the files are read on the first call
\* only; later calls return what the first one read
load_data(held, actual_file, polls_file) ==
  IF held = NoCache
  THEN [err |-> "", actual |-> actual_file, polls |-> polls_file]
  ELSE held

\* actual_results.head(12)['Standardized Name'].tolist()
ActualTop12(actual) ==
  LET names == Column(actual, StandardizedName)
  IN  [i \in 1..Len(head(names, TopN)) |-> names[i].s]

\* the sort key of a cell; sort_values puts missing values last
SortKey(cell) == IF cell.kind = "num" THEN cell.v ELSE -1

\* dropna as it would be if it dropped nothing
dropna_nothing(df, c) == 1..Len(df.rows)

\* the index labels of poll_df.dropna(subset=[poll_column])
dropna(df, c) == {i \in 1..Len(df.rows) : df.rows[i][c].kind = "num"}

\* poll_df.sort_values(by=poll_column, ascending=False) with the default
\* kind='quicksort', which is not stable (the order of equal values depends on
\* the numpy build): every order of the index labels I by descending value,
\* rows of equal value in any order
RECURSIVE sort_values(_, _, _)
sort_values(df, c, I) ==
  IF I = {} THEN {<<>>}
  ELSE LET top == {i \in I : \A j \in I :
                     SortKey(df.rows[i][c]) >= SortKey(df.rows[j][c])}
       IN  UNION {{<<i>> \o rest : rest \in sort_values(df, c, I \ {i})} : i \in top}

\* the index labels of get_top12_from_poll's poll_df.head(12), one for each
\* order the sort can leave
Top12Rows(df, c) == {head(order, TopN) : order \in sort_values(df, c, dropna(df, c))}

\* get_top12_from_poll: ...['Standardized Name'].tolist()
NamesOfRows(df, rows) ==
  LET names == ColIndex(df.columns, StandardizedName)
  IN  [k \in 1..Len(rows) |-> df.rows[rows[k]][names].s]

\* poll_columns: the positions of the columns that are none of Candidate,
\* Party, Standardized Name, in column order
RECURSIVE PollColumnsFrom(_, _)
PollColumnsFrom(columns, j) ==
  IF j > Len(columns) THEN <<>>
  ELSE (IF columns[j] \in {Candidate, Party, StandardizedName} THEN <<>> ELSE <<j>>)
         \o PollColumnsFrom(columns, j + 1)

poll_columns(df) == PollColumnsFrom(df.columns, 1)

\* sum(1 for x in xs if x in ys)
CountIn(xs, ys) ==
  LET members == Range(ys)
  IN  Cardinality({i \in 1..Len(xs) : xs[i] \in members})

\* one row of comparison_df; top_rows are the index labels behind
\* 'Predicted Top 12'
ComparisonRow(df, c, rows, actual12) ==
  [poll      |-> c,
   top_rows  |-> rows,
   predicted |-> NamesOfRows(df, rows),
   correct   |-> CountIn(NamesOfRows(df, rows), actual12)]

\* generate_comparison_results(): every comparison_df the sorts can leave
RECURSIVE ComparisonsFrom(_, _, _)
ComparisonsFrom(df, cols, actual12) ==
  IF Len(cols) = 0 THEN {<<>>}
  ELSE {<<ComparisonRow(df, cols[1], rows, actual12)>> \o rest :
          rows \in Top12Rows(df, cols[1]),
          rest \in ComparisonsFrom(df, Tail(cols), actual12)}

generate_comparison_results(df, actual12) ==
  ComparisonsFrom(df, poll_columns(df), actual12)

\* the row of comparison_df for a poll column
PollData(comparison, c) ==
  comparison[CHOOSE k \in 1..Len(comparison) : comparison[k].poll = c]

\* missed_counts: a dict, so a senator named twice keeps one entry
RECURSIVE MissedCountsFrom(_, _, _)
MissedCountsFrom(actual12, comparison, i) ==
  IF i > Len(actual12) THEN <<>>
  ELSE LET senator == actual12[i]
           count   == Cardinality({k \in 1..Len(comparison) :
                                     senator \notin Range(comparison[k].predicted)})
       IN  (IF \E j \in 1..(i-1) : actual12[j] = senator THEN <<>>
            ELSE <<<<senator, count>>>>)
             \o MissedCountsFrom(actual12, comparison, i + 1)

(* ------------------------ processed files to try ----------------------- *)

\* the most rows of opinion_polls.csv after its first TopN - 1 rows
MaxTail == 2

NameA == <<"A">>

NameB == <<"B">>

\* names of the rows that lead both tables
LeadName(i) == <<"F", LowerChars[i]>>

OtherName(i) == <<"G", LowerChars[i]>>

ActualColumns == <<CandidateName, NumberOfVotes, Party, StandardizedName>>

ActualRow(name, votes) == <<Str(name), Num(votes), Str(<<"P">>), Str(name)>>

PollColumns == <<Candidate, Party, <<"S","W","S">>, <<"O","C","T","A">>, StandardizedName>>

PollRow(name, sws, octa) == <<Str(name), Str(<<"P">>), sws, octa, Str(name)>>

\* TopN - 1 rows by descending votes
ActualLead == [i \in 1..(TopN - 1) |-> ActualRow(LeadName(i), 100 - i)]

\* TopN - 1 rows scored above every other row in both polls; the last two
\* are not among the leading official rows
PollLead ==
  [i \in 1..(TopN - 1) |->
     PollRow(IF i <= TopN - 3 THEN LeadName(i) ELSE OtherName(i),
             Num(50 - i), Num(30 + i))]

\* the rows after the leading ones: none; by descending votes; by ascending
\* votes; equal votes; a name of a leading row again
ActualTails ==
  { <<>>,
    <<ActualRow(NameA, 2), ActualRow(NameB, 1)>>,
    <<ActualRow(NameB, 1), ActualRow(NameA, 2)>>,
    <<ActualRow(NameB, 2), ActualRow(NameA, 2)>>,
    <<ActualRow(LeadName(1), 1), ActualRow(NameA, 1)>> }

PollTailRows ==
  { PollRow(NameA, Num(2), NaN),
    PollRow(NameB, Num(2), Num(1)),
    PollRow(LeadName(1), Num(1), Num(1)) }

ActualCsvs == {Frame(ActualColumns, ActualLead \o tail) : tail \in ActualTails}

PollCsvs ==
  {Frame(PollColumns, PollLead \o tail) : tail \in SeqsUpTo(PollTailRows, MaxTail)}

\* what a later run of main() leaves in data/processed
LaterActualCsvs ==
  { Frame(ActualColumns, ActualLead),
    Frame(ActualColumns, ActualLead \o <<ActualRow(NameB, 3)>>) }

LaterPollCsvs ==
  { Frame(PollColumns, PollLead \o <<PollRow(NameB, Num(3), Num(3))>>) }

(* ------------------------------ actions -------------------------------- *)

NamesIdle ==
  /\ raw_name = None
  /\ names_pc = "idle"
  /\ std_once = None
  /\ reached_mapping = None
  /\ after_mapping = None
  /\ std_twice = None

MainIdle ==
  /\ raw_actual = <<>>
  /\ raw_polls = <<>>
  /\ main_pc = "idle"
  /\ main_error = ""
  /\ results_df = NoFrame
  /\ polls_df = NoFrame
  /\ actual_results_csv = NoFrame
  /\ opinion_polls_csv = NoFrame
  /\ name_mapping_csv = NoFrame

AppIdle ==
  /\ csv_actual = NoFrame
  /\ csv_polls = NoFrame
  /\ cache = NoCache
  /\ evaluated = FALSE
  /\ actual_top12 = <<>>
  /\ comparison_df = <<>>
  /\ selected_poll = 0
  /\ predicted_marks = <<>>
  /\ actual_marks = <<>>
  /\ missed_counts = <<>>

NamesInit ==
  /\ raw_name \in RawNames
  /\ names_pc = "start"
  /\ std_once = None
  /\ reached_mapping = None
  /\ after_mapping = None
  /\ std_twice = None

\* standardize_name(raw_name)
Standardize ==
  /\ names_pc = "start"
  /\ names_pc' = "once"
  /\ std_once' = standardize_name(raw_name)
  /\ reached_mapping' = BeforeMapping(raw_name)
  /\ after_mapping' = IF BeforeMapping(raw_name) = None THEN None
                      ELSE ApplyNameMapping(BeforeMapping(raw_name))
  /\ UNCHANGED <<raw_name, std_twice, main_vars, app_vars>>

\* standardize_name on its own result
Restandardize ==
  /\ names_pc = "once"
  /\ names_pc' = "twice"
  /\ std_twice' = standardize_name(std_once)
  /\ UNCHANGED <<raw_name, std_once, reached_mapping, after_mapping, main_vars, app_vars>>

NamesNext == Standardize \/ Restandardize

InitNames == NamesInit /\ MainIdle /\ AppIdle

SpecNames == InitNames /\ [][NamesNext]_vars

MainInit ==
  /\ raw_actual \in ActualFiles
  /\ raw_polls \in PollFiles
  /\ main_pc = "start"
  /\ main_error = ""
  /\ results_df = NoFrame
  /\ polls_df = NoFrame
  /\ actual_results_csv = NoFrame
  /\ opinion_polls_csv = NoFrame
  /\ name_mapping_csv = NoFrame

\* results_df = read_actual_results()
ReadActualResults ==
  /\ main_pc = "start"
  /\ LET df == read_actual_results(raw_actual)
     IN  IF df.err # ""
         THEN /\ main_pc' = "error"
              /\ main_error' = df.err
              /\ UNCHANGED results_df
         ELSE /\ main_pc' = "actual"
              /\ results_df' = df
              /\ UNCHANGED main_error
  /\ UNCHANGED <<raw_actual, raw_polls, polls_df, actual_results_csv,
                 opinion_polls_csv, name_mapping_csv, names_vars, app_vars>>

\* polls_df = read_opinion_polls()
ReadOpinionPolls ==
  /\ main_pc = "actual"
  /\ LET df == read_opinion_polls(raw_polls)
     IN  IF df.err # ""
         THEN /\ main_pc' = "error"
              /\ main_error' = df.err
              /\ UNCHANGED polls_df
         ELSE /\ main_pc' = "polls"
              /\ polls_df' = df
              /\ UNCHANGED main_error
  /\ UNCHANGED <<raw_actual, raw_polls, results_df, actual_results_csv,
                 opinion_polls_csv, name_mapping_csv, names_vars, app_vars>>

\* results_df.to_csv('data/processed/actual_results.csv', index=False)
SaveResults ==
  /\ main_pc = "polls"
  /\ main_pc' = "saved_results"
  /\ actual_results_csv' = results_df
  /\ UNCHANGED <<raw_actual, raw_polls, main_error, results_df, polls_df,
                 opinion_polls_csv, name_mapping_csv, names_vars, app_vars>>

\* polls_df.to_csv('data/processed/opinion_polls.csv', index=False)
SavePolls ==
  /\ main_pc = "saved_results"
  /\ main_pc' = "saved_polls"
  /\ opinion_polls_csv' = polls_df
  /\ UNCHANGED <<raw_actual, raw_polls, main_error, results_df, polls_df,
                 actual_results_csv, name_mapping_csv, names_vars, app_vars>>

\* name_mapping.to_csv('data/processed/name_mapping.csv', index=False)
SaveNameMapping ==
  /\ main_pc = "saved_polls"
  /\ main_pc' = "done"
  /\ name_mapping_csv' = NameMappingFrame(results_df, polls_df)
  /\ UNCHANGED <<raw_actual, raw_polls, main_error, results_df, polls_df,
                 actual_results_csv, opinion_polls_csv, names_vars, app_vars>>

MainNext ==
  \/ ReadActualResults
  \/ ReadOpinionPolls
  \/ SaveResults
  \/ SavePolls
  \/ SaveNameMapping

InitMain == MainInit /\ NamesIdle /\ AppIdle

SpecMain == InitMain /\ [][MainNext]_vars

AppInit ==
  /\ csv_actual \in ActualCsvs
  /\ csv_polls \in PollCsvs
  /\ cache = NoCache
  /\ evaluated = FALSE
  /\ actual_top12 = <<>>
  /\ comparison_df = <<>>
  /\ selected_poll = 0
  /\ predicted_marks = <<>>
  /\ actual_marks = <<>>
  /\ missed_counts = <<>>

\* one run of the script app.py: a page evaluation, with the poll the
\* selectbox holds
RunScript ==
  LET data  == load_data(cache, csv_actual, csv_polls)
      top12 == ActualTop12(data.actual)
  IN  /\ cache' = data
      /\ actual_top12' = top12
      /\ comparison_df' \in generate_comparison_results(data.polls, top12)
      /\ \E c \in Range(poll_columns(data.polls)) :
           LET predicted == PollData(comparison_df', c).predicted
               in_pred   == Range(predicted)
               in_top12  == Range(top12)
           IN  /\ selected_poll' = c
               /\ predicted_marks' =
                    [i \in 1..Len(predicted) |-> predicted[i] \in in_top12]
               /\ actual_marks' =
                    [i \in 1..Len(top12) |-> top12[i] \in in_pred]
      /\ missed_counts' = MissedCountsFrom(top12, comparison_df', 1)
      /\ evaluated' = TRUE
      /\ UNCHANGED <<csv_actual, csv_polls, names_vars, main_vars>>

\* the processed files are replaced (main() ran again on changed sources)
UpdateFiles ==
  /\ \E a \in LaterActualCsvs, p \in LaterPollCsvs :
       /\ <<a, p>> # <<csv_actual, csv_polls>>
       /\ csv_actual' = a
       /\ csv_polls' = p
  /\ evaluated' = FALSE
  /\ UNCHANGED <<cache, actual_top12, comparison_df,
                 selected_poll, predicted_marks, actual_marks, missed_counts,
                 names_vars, main_vars>>

AppNext == RunScript \/ UpdateFiles

InitApp == AppInit /\ NamesIdle /\ MainIdle

SpecApp == InitApp /\ [][AppNext]_vars

(* ------------------------------ properties ----------------------------- *)

\* C4: standardize_name is idempotent: applied to its own result it returns
\* that result.
C4_Idempotent == names_pc = "twice" => std_twice = std_once

\* the name_mapping loop was reached on a string holding several rules' keys
SeveralRulesMatch ==
  /\ names_pc \in {"once", "twice"}
  /\ reached_mapping # None
  /\ Cardinality(MatchingRules(reached_mapping)) > 1

\* C9 as stated: when the string reaching the name_mapping loop holds the key
\* of more than one rule, the loop leaves the value of the last such rule.
C9_LastRuleWins ==
  SeveralRulesMatch =>
    after_mapping = name_mapping[SetMax(MatchingRules(reached_mapping))][2]

\* C9 as amended: when the string reaching the name_mapping loop holds the
\* key of more than one rule, the loop leaves the value of the first such
\* rule: later rules read the replaced string, which holds none of their keys.
C9_FirstRuleWins ==
  SeveralRulesMatch =>
    after_mapping = name_mapping[SetMin(MatchingRules(reached_mapping))][2]

C9_Witness ==
  /\ SeveralRulesMatch
  /\ name_mapping[SetMin(MatchingRules(reached_mapping))][2]
       # name_mapping[SetMax(MatchingRules(reached_mapping))][2]
  /\ after_mapping = name_mapping[SetMin(MatchingRules(reached_mapping))][2]

\* main() got past read_opinion_polls()
PollsLoaded == main_pc \in {"polls", "saved_results", "saved_polls", "done"}

\* main() got past read_actual_results()
ActualLoaded == main_pc = "actual" \/ PollsLoaded \/
                  (main_pc = "error" /\ results_df # NoFrame)

\* C5: every column of the survey table after the first two is converted:
\* each cell of polls_df there is a number or the missing value, never text.
C5_EverySurveyColumnNumeric ==
  PollsLoaded =>
    \A i \in 1..Len(polls_df.rows) :
      \A j \in 3..Len(PollHeader(raw_polls[1])) :
        polls_df.rows[i][j].kind \in {"num", "nan"}

\* a data row whose number of cells is not the header's
RowMismatch(lines, header) ==
  \E i \in 1..Len(DataRows(lines)) : Len(DataRows(lines)[i]) # Len(header)

\* C6: a table with a data row whose number of cells differs from the
\* header's is never loaded: its loader ends main() in an error.
C6_MisshapenRowIsAnError ==
  /\ RowMismatch(raw_actual, RowCells(raw_actual[1])) /\ main_pc # "idle"
       => ~ActualLoaded
  /\ RowMismatch(raw_polls, PollHeader(raw_polls[1])) /\ main_pc # "idle"
       => ~PollsLoaded

\* a cell of the Number of Votes column that int() rejects, commas removed
BadVoteCell(lines) ==
  LET votes == ColIndex(RowCells(lines[1]), NumberOfVotes)
      rows  == DataRows(lines)
  IN  \E i \in 1..Len(rows) :
        /\ 0 < votes /\ votes <= Len(rows[i])
        /\ ~IsIntLiteral(replace(rows[i][votes], <<",">>, <<>>))

\* C7: with a vote count that is no integer, main() ends in an error before
\* any of the three output files is written.
C7_BadVotesWriteNothing ==
  main_pc # "idle" /\ BadVoteCell(raw_actual) =>
    /\ main_pc \in {"start", "error"}
    /\ results_df = NoFrame
    /\ actual_results_csv = NoFrame
    /\ opinion_polls_csv = NoFrame
    /\ name_mapping_csv = NoFrame

C7_Witness ==
  /\ main_pc = "error"
  /\ main_error = "ValueError"
  /\ BadVoteCell(raw_actual)
  /\ ~RowMismatch(raw_actual, RowCells(raw_actual[1]))
  /\ actual_results_csv = NoFrame

\* the script ran at least once
ScriptRan == cache # NoCache

\* the index labels I by descending value, rows of equal value in row order
RECURSIVE StableDescending(_, _, _)
StableDescending(df, c, I) ==
  IF I = {} THEN <<>>
  ELSE LET top == {i \in I : \A j \in I :
                     SortKey(df.rows[i][c]) >= SortKey(df.rows[j][c])}
       IN  <<SetMin(top)>> \o StableDescending(df, c, I \ {SetMin(top)})

\* C1: actual_top12 is the names of the 12 rows with the most votes, by
\* descending votes, rows of equal votes in row order, whatever the order of
\* the rows in the file.
C1_ActualTop12ByVotes ==
  ScriptRan =>
    actual_top12 =
      NamesOfRows(cache.actual,
                  head(StableDescending(cache.actual,
                                        ColIndex(cache.actual.columns, NumberOfVotes),
                                        1..Len(cache.actual.rows)),
                       TopN))

\* C2: Correct Predictions of every poll is the size of the intersection of
\* the set of predicted names and the set of actual top-12 names.
C2_CorrectIsIntersectionSize ==
  ScriptRan =>
    \A k \in 1..Len(comparison_df) :
      comparison_df[k].correct =
        Cardinality(Range(comparison_df[k].predicted) \cap Range(actual_top12))

\* the rows of opinion_polls with a score in column c
Scored(c) == {i \in 1..Len(cache.polls.rows) : cache.polls.rows[i][c].kind = "num"}

Score(c, i) == cache.polls.rows[i][c].v

\* C3 as stated: the predicted top 12 of every poll is the first 12 rows that
\* have a score, by descending score, rows of equal score in row order.
C3_PredictedTop12Stable ==
  ScriptRan =>
    \A k \in 1..Len(comparison_df) :
      comparison_df[k].top_rows =
        head(StableDescending(cache.polls, comparison_df[k].poll,
                              Scored(comparison_df[k].poll)),
             TopN)

\* C3 as amended: the predicted top 12 of every poll holds only rows that
\* have a score, no row twice, by descending score; it holds 12 rows, or all
\* scored rows when they are fewer; no row left out has a higher score than a
\* row in it; the order of rows of equal score is not fixed.
C3_PredictedTop12Descending ==
  ScriptRan =>
    \A k \in 1..Len(comparison_df) :
      LET c    == comparison_df[k].poll
          rows == comparison_df[k].top_rows
      IN  /\ \A p \in 1..Len(rows) : rows[p] \in Scored(c)
          /\ \A p, q \in 1..Len(rows) : p # q => rows[p] # rows[q]
          /\ \A p \in 1..(Len(rows) - 1) : Score(c, rows[p]) >= Score(c, rows[p+1])
          /\ Len(rows) = (IF Cardinality(Scored(c)) < TopN
                          THEN Cardinality(Scored(c)) ELSE TopN)
          /\ \A i \in Scored(c) \ Range(rows) :
               \A p \in 1..Len(rows) : Score(c, i) <= Score(c, rows[p])
          /\ comparison_df[k].predicted = NamesOfRows(cache.polls, rows)

\* a poll with a missing score and more than 12 scored rows, two of them tied
\* for the last place, the later row taken
C3_Witness ==
  /\ ScriptRan
  /\ \E k \in 1..Len(comparison_df) :
       LET c    == comparison_df[k].poll
           rows == comparison_df[k].top_rows
       IN  /\ Cardinality(Scored(c)) > TopN
           /\ Len(rows) = TopN
           /\ \E i \in Scored(c) \ Range(rows) :
                i < rows[TopN] /\ Score(c, i) = Score(c, rows[TopN])
  /\ \E k \in 1..Len(comparison_df) :
       Scored(comparison_df[k].poll) # 1..Len(cache.polls.rows)

\* C8: a page evaluation after a change of the processed files shows the
\* actual top 12 and the comparison of the files as they are now.
C8_EvaluationReadsCurrentFiles ==
  evaluated =>
    /\ actual_top12 = ActualTop12(csv_actual)
    /\ comparison_df \in generate_comparison_results(csv_polls, ActualTop12(csv_actual))

CountTrue(marks) == Cardinality({i \in 1..Len(marks) : marks[i]})

\* the senators of missed_counts that the poll's predicted list lacks
MissedBy(predicted) ==
  Cardinality({i \in 1..Len(missed_counts) : missed_counts[i][1] \notin Range(predicted)})

\* C10: Correct Predictions of the selected poll is the number of entries of
\* its predicted list marked as in the actual top 12, and the number of
\* actual top-12 entries marked as predicted, and, with 12 actual entries,
\* 12 less the senators that the miss counts hold as missed by that poll.
C10_CountsAgree ==
  ScriptRan =>
    LET row == PollData(comparison_df, selected_poll)
    IN  /\ row.correct = CountTrue(predicted_marks)
        /\ row.correct = CountTrue(actual_marks)
        /\ Len(actual_top12) = TopN => row.correct = TopN - MissedBy(row.predicted)

====
